---- MODULE Spec2Model ----
(***************************************************************************)
(* Tick ledger and position lifecycle of the concentrated-liquidity        *)
(* module (x/concentrated-liquidity/tick.go) together with the position    *)
(* manager that drives it (createPosition / withdrawPosition, exercised    *)
(* by the keeper tests).                                                   *)
(*                                                                         *)
(* sdk.Dec and sdk.Int values are modelled as integers (Add and Sub are    *)
(* exact on both), durations as whole seconds.                             *)
(***************************************************************************)
EXTENDS Integers, Sequences, FiniteSets, TLC

\* ------------------------------------------------------------------ bounds

\* types.MaxTick, scaled down; types.MinTick is its negation.
MaxTick == 2
MinTick == -MaxTick

\* Largest token amount / liquidity amount a caller passes.
MaxLiq == 2

\* Largest magnitude of a liquidity figure a direct initOrUpdateTick call
\* may leave on a tick.
MaxGross == 1

\* Largest number of incentive records a pool comes to hold.
MaxIncentives == 2

\* Latest block time, in seconds after the creation of the pool.
MaxTime == 1

\* Number of goroutines that use the metrics.
MaxGoroutines == 2

\* Largest sum of the values recorded for one ip and name.
MaxRecorded == 3

\* ------------------------------------------------------------- input sets

ExistingPoolId == 1
MissingPoolId == 2
PoolIds == {ExistingPoolId, MissingPoolId}

\* Every tick index from one below the valid range to one above it.
TickInputs == (MinTick - 1)..(MaxTick + 1)

\* The tick indexes position calls are made with: both ends of the valid
\* range, the tick beyond either end, and the middle.
RangeTicks == {MinTick - 1, MinTick, 0, MaxTick, MaxTick + 1}

TickSpacings == {1, 2, 3}

\* s.TestAccs[0], the account the position calls are made for.
Owners == {<<"acc", 0>>}

\* incentiveIDsCommittedTo values a caller may pass.
IdLists == {<<>>, <<1>>, <<2>>, <<1, 2>>}

\* incentiveIDsCommittedTo values position calls are made with.
PositionIdLists == {<<>>, <<1>>}

\* The incentive ids a pool is created with (PrepareConcentratedPool has
\* none, PrepareConcentratedPoolWithIncentives has some).
PoolIdLists == {<<>>, <<1, 2>>}

VARIABLES
    pools,      \* pool id -> pool record, for every registered pool
    ticks,      \* KeyTick(poolId, tickIndex) -> TickInfo, for every stored tick
    positions,  \* position key -> liquidity, for every position record
    balances,   \* address -> <<amount of token0, amount of token1>>
    blockTime,  \* ctx.BlockTime(), in seconds
    last,       \* the last call: its name and what it returned
    crossed,    \* KeyTick -> the SecondsPerIncentivizedLiquidityOutside of
                \* the tick's records right after its latest crossTick
    mu,         \* Metrics.mu: the goroutine holding the write lock (0 for
                \* none) and the goroutines holding the read lock
    values,     \* Metrics.values: ip -> name -> value
    pc,         \* goroutine -> where it is in RecordValue or GetValues
    frame,      \* goroutine -> the arguments and locals of its call
    recorded,   \* <<ip, name>> -> the sum of the values RecordValue was
                \* called with for it
    instance,   \* the package variable instance: 0 for nil, otherwise the
                \* Metrics object it points to
    objects,    \* Metrics object -> its values map, for every object
                \* newMetrics has made
    caller      \* goroutine -> where it is in Instance(), the object it
                \* made there, and the pointer its latest Instance() returned

\* The package variable of the metrics package, the objects it can point
\* to, and the goroutines that ask for it.
instanceVars == <<instance, objects, caller>>

\* The state of the metrics package.
metricsVars == <<mu, values, pc, frame, recorded, instanceVars>>

\* The state of the concentrated-liquidity keeper.
keeperVars == <<pools, ticks, positions, balances, blockTime, last, crossed>>

vars == <<keeperVars, metricsVars>>

\* ------------------------------------------------------------------ errors

NoError == [kind |-> "nil"]

\* A Go runtime panic (index out of range, division by zero).
Panic == [kind |-> "panic"]

PoolNotFoundError(poolId) == [kind |-> "PoolNotFoundError", PoolId |-> poolId]

TickSpacingError(lowerTick, upperTick, tickSpacing) ==
    [kind |-> "TickSpacingError", LowerTick |-> lowerTick,
     UpperTick |-> upperTick, TickSpacing |-> tickSpacing]

InvalidTickError(tick, isLower) ==
    [kind |-> "InvalidTickError", Tick |-> tick, IsLower |-> isLower]

InvalidLowerUpperTickError(lowerTick, upperTick) ==
    [kind |-> "InvalidLowerUpperTickError", LowerTick |-> lowerTick,
     UpperTick |-> upperTick]

\* ------------------------------------------------------------ range check

\* Go's % on int64: the remainder takes the sign of the dividend.
GoRem(a, b) ==
    IF a >= 0 THEN a % b ELSE -((-a) % b)

\* validateTickRangeIsValid with the order of the ticks checked first.
validateTickRangeIsValid_OrderFirst(tickSpacing, lowerTick, upperTick) ==
    IF lowerTick >= upperTick
    THEN InvalidLowerUpperTickError(lowerTick, upperTick)
    ELSE IF GoRem(lowerTick, tickSpacing) # 0 \/ GoRem(upperTick, tickSpacing) # 0
    THEN TickSpacingError(lowerTick, upperTick, tickSpacing)
    ELSE IF lowerTick < MinTick \/ lowerTick >= MaxTick
    THEN InvalidTickError(lowerTick, TRUE)
    ELSE IF upperTick > MaxTick \/ upperTick <= MinTick
    THEN InvalidTickError(upperTick, FALSE)
    ELSE NoError

\* validateTickRangeIsValid with MinTick itself refused as a lower tick.
validateTickRangeIsValid_StrictLower(tickSpacing, lowerTick, upperTick) ==
    IF GoRem(lowerTick, tickSpacing) # 0 \/ GoRem(upperTick, tickSpacing) # 0
    THEN TickSpacingError(lowerTick, upperTick, tickSpacing)
    ELSE IF lowerTick <= MinTick \/ lowerTick >= MaxTick
    THEN InvalidTickError(lowerTick, TRUE)
    ELSE IF upperTick > MaxTick \/ upperTick <= MinTick
    THEN InvalidTickError(upperTick, FALSE)
    ELSE IF lowerTick >= upperTick
    THEN InvalidLowerUpperTickError(lowerTick, upperTick)
    ELSE NoError

\* validateTickRangeIsValid, check by check, in the order of the code.
validateTickRangeIsValid(tickSpacing, lowerTick, upperTick) ==
    IF GoRem(lowerTick, tickSpacing) # 0 \/ GoRem(upperTick, tickSpacing) # 0
    THEN TickSpacingError(lowerTick, upperTick, tickSpacing)
    ELSE IF lowerTick < MinTick \/ lowerTick >= MaxTick
    THEN InvalidTickError(lowerTick, TRUE)
    ELSE IF upperTick > MaxTick \/ upperTick <= MinTick
    THEN InvalidTickError(upperTick, FALSE)
    ELSE IF lowerTick >= upperTick
    THEN InvalidLowerUpperTickError(lowerTick, upperTick)
    ELSE NoError

\* ------------------------------------------------------------- tick store

KeyTick(poolId, tickIndex) == <<poolId, tickIndex>>

poolExists(poolId) == poolId \in DOMAIN pools

\* model.TickInfo{LiquidityGross: sdk.ZeroDec(), LiquidityNet: sdk.ZeroDec()}
ZeroTickInfo ==
    [LiquidityGross |-> 0, LiquidityNet |-> 0, SecondsInactive |-> 0,
     TickIncentivizedLiquidityRecords |-> <<>>]

\* getTickInfo with a key that was never set reported as an error.
getTickInfo_MissingKeyFails(tk, poolId, tickIndex) ==
    IF ~poolExists(poolId)
    THEN [tickInfo |-> ZeroTickInfo, err |-> PoolNotFoundError(poolId)]
    ELSE IF KeyTick(poolId, tickIndex) \notin DOMAIN tk
    THEN [tickInfo |-> ZeroTickInfo, err |-> [kind |-> "KeyNotFound"]]
    ELSE [tickInfo |-> tk[KeyTick(poolId, tickIndex)], err |-> NoError]

\* getTickInfo over the tick store tk: the record read and the error.
getTickInfo(tk, poolId, tickIndex) ==
    IF ~poolExists(poolId)
    THEN [tickInfo |-> ZeroTickInfo, err |-> PoolNotFoundError(poolId)]
    ELSE IF KeyTick(poolId, tickIndex) \notin DOMAIN tk
    THEN [tickInfo |-> ZeroTickInfo, err |-> NoError]
    ELSE [tickInfo |-> tk[KeyTick(poolId, tickIndex)], err |-> NoError]

\* SetTickInfo with a key made of the tick index alone: the record lands on
\* the tick of that index in every pool that has it stored.
SetTickInfo_KeyedByTickIndex(tk, poolId, tickIndex, tickInfo) ==
    [k \in DOMAIN tk \cup {KeyTick(poolId, tickIndex)} |->
        IF k[2] = tickIndex THEN tickInfo ELSE tk[k]]

\* SetTickInfo that leaves a key alone once it is set.
SetTickInfo_KeepsExisting(tk, poolId, tickIndex, tickInfo) ==
    [k \in DOMAIN tk \cup {KeyTick(poolId, tickIndex)} |->
        IF k \in DOMAIN tk THEN tk[k] ELSE tickInfo]

\* SetTickInfo: an unconditional overwrite of one key.
SetTickInfo(tk, poolId, tickIndex, tickInfo) ==
    [k \in DOMAIN tk \cup {KeyTick(poolId, tickIndex)} |->
        IF k = KeyTick(poolId, tickIndex) THEN tickInfo ELSE tk[k]]

\* ----------------------------------------------------------------- pools

\* getPoolById for a registered pool.
getPoolById(poolId) == pools[poolId]

\* ctx.BlockTime().Sub(pool.GetTimeOfCreation()), in seconds.
Elapsed(pool) == blockTime - pool.TimeOfCreation

\* One pool incentive record, as the pool holds it.
PoolRecord(id) == [ID |-> id, SecondsPerIncentivizedLiquidityGlobal |-> 0]

\* A pool as CreatePool leaves it: no price, no tick, created at time 0.
NewPool(tickSpacing, ids) ==
    [TickSpacing |-> tickSpacing, TimeOfCreation |-> 0,
     CurrentTick |-> 0, CurrentSqrtPrice |-> 0,
     PoolIncentivizedLiquidityRecords |->
        [i \in 1..Len(ids) |-> PoolRecord(ids[i])]]

\* ------------------------------------------------------- initOrUpdateTick

Abs(x) == IF x < 0 THEN -x ELSE x

\* math.AddLiquidity that adds the magnitude of liquidityB whatever its sign.
AddLiquidity_AddsMagnitude(liquidityA, liquidityB) ==
    liquidityA + Abs(liquidityB)

\* math.AddLiquidity: a negative liquidityB is subtracted.
AddLiquidity(liquidityA, liquidityB) ==
    IF liquidityB < 0 THEN liquidityA - Abs(liquidityB)
    ELSE liquidityA + liquidityB

\* The record appended for a pool incentive the tick has no record of.
ZeroRecord(id) ==
    [ID |-> id, IncentivizedLiquidityGross |-> 0,
     IncentivizedLiquidityNet |-> 0,
     SecondsPerIncentivizedLiquidityOutside |-> 0]

\* A tick that is initialised, or initialised again after it was inactive,
\* gets the pool's age as its seconds inactive.
stampSecondsInactive(tickInfo, pool) ==
    IF tickInfo.LiquidityGross = 0 /\ tickInfo.LiquidityNet = 0
    THEN [tickInfo EXCEPT !.SecondsInactive = Elapsed(pool)]
    ELSE tickInfo

\* liquidityGrossAfter with liquidityIn taken off instead of added.
liquidityGrossAfter_Subtracts(liquidityBefore, liquidityIn) ==
    AddLiquidity(liquidityBefore, -liquidityIn)

\* liquidityAfter := math.AddLiquidity(liquidityBefore, liquidityIn)
liquidityGrossAfter(liquidityBefore, liquidityIn) ==
    AddLiquidity(liquidityBefore, liquidityIn)

\* liquidityNetAfter with the upper flag ignored.
liquidityNetAfter_IgnoresUpper(liquidityNet, liquidityIn, upper) ==
    liquidityNet + liquidityIn

\* The upper tick subtracts liquidityIn from the net, the lower tick adds it.
liquidityNetAfter(liquidityNet, liquidityIn, upper) ==
    IF upper THEN liquidityNet - liquidityIn ELSE liquidityNet + liquidityIn

\* reconcileIncentiveRecords with the zero records of the pool appended to
\* whatever records the tick has.
reconcileIncentiveRecords_AlwaysAppends(tickRecs, poolRecs) ==
    [panic |-> FALSE,
     records |-> tickRecs \o
                 [i \in 1..Len(poolRecs) |-> ZeroRecord(poolRecs[i].ID)]]

\* The two branches that bring the tick's incentive records in line with the
\* pool's.  A tick without records gets one zero record per pool record.  A
\* tick whose record count differs from the pool's has a new list built in a
\* local variable, reading tickRecs[i] for every index i of the pool's list;
\* the new list is never stored back into tickInfo, so the records stay as
\* they were, and the read is out of range once i passes the tick's list.
reconcileIncentiveRecords(tickRecs, poolRecs) ==
    IF Len(tickRecs) = 0
    THEN [panic |-> FALSE,
          records |-> [i \in 1..Len(poolRecs) |-> ZeroRecord(poolRecs[i].ID)]]
    ELSE IF Len(poolRecs) # Len(tickRecs)
    THEN [panic |-> \E i \in 1..Len(poolRecs) : i > Len(tickRecs),
          records |-> tickRecs]
    ELSE [panic |-> FALSE, records |-> tickRecs]

\* commitToRecord with liquidityIn stored as the gross of the record instead
\* of added to it.
commitToRecord_Overwrites(record, liquidityIn, upper) ==
    [record EXCEPT
        !.IncentivizedLiquidityGross = liquidityIn,
        !.IncentivizedLiquidityNet = liquidityNetAfter(@, liquidityIn, upper)]

\* One record after liquidityIn is committed to it.
commitToRecord(record, liquidityIn, upper) ==
    [record EXCEPT
        !.IncentivizedLiquidityGross = AddLiquidity(@, liquidityIn),
        !.IncentivizedLiquidityNet = liquidityNetAfter(@, liquidityIn, upper)]

\* The loop over incentiveIDsCommittedTo: the i-th committed id is compared
\* with the i-th record of the tick; the read is out of range when the list
\* of committed ids is longer than the tick's list.
commitIncentives(records, incentiveIDsCommittedTo, liquidityIn, upper) ==
    [panic |-> Len(incentiveIDsCommittedTo) > Len(records),
     records |->
        [i \in 1..Len(records) |->
            IF i <= Len(incentiveIDsCommittedTo)
               /\ records[i].ID = incentiveIDsCommittedTo[i]
            THEN commitToRecord(records[i], liquidityIn, upper)
            ELSE records[i]]]

\* initOrUpdateTick once the pool is known to exist.
updateTickOfPool(tk, poolId, tickIndex, liquidityIn, upper, incentiveIDsCommittedTo) ==
    LET got == getTickInfo(tk, poolId, tickIndex)
        pool == getPoolById(poolId)
        stamped == stampSecondsInactive(got.tickInfo, pool)
        tickInfo ==
            [stamped EXCEPT
                !.LiquidityGross = liquidityGrossAfter(@, liquidityIn),
                !.LiquidityNet = liquidityNetAfter(@, liquidityIn, upper)]
        rec == reconcileIncentiveRecords(
                   tickInfo.TickIncentivizedLiquidityRecords,
                   pool.PoolIncentivizedLiquidityRecords)
        com == commitIncentives(rec.records, incentiveIDsCommittedTo,
                                liquidityIn, upper)
    IN  IF got.err.kind # "nil"
        THEN [err |-> got.err, ticks |-> tk]
        ELSE IF rec.panic \/ com.panic
        THEN [err |-> Panic, ticks |-> tk]
        ELSE [err |-> NoError,
              ticks |-> SetTickInfo(tk, poolId, tickIndex,
                  [tickInfo EXCEPT
                      !.TickIncentivizedLiquidityRecords = com.records])]

\* initOrUpdateTick with the tick set before the pool is looked up.
initOrUpdateTick_SetsBeforePoolCheck(tk, poolId, tickIndex, liquidityIn, upper, incentiveIDsCommittedTo) ==
    IF ~poolExists(poolId)
    THEN [err |-> PoolNotFoundError(poolId),
          ticks |-> SetTickInfo(tk, poolId, tickIndex, ZeroTickInfo)]
    ELSE updateTickOfPool(tk, poolId, tickIndex, liquidityIn, upper,
                          incentiveIDsCommittedTo)

\* initOrUpdateTick over the tick store tk: the error and the store after.
initOrUpdateTick(tk, poolId, tickIndex, liquidityIn, upper, incentiveIDsCommittedTo) ==
    IF ~poolExists(poolId)
    THEN [err |-> PoolNotFoundError(poolId), ticks |-> tk]
    ELSE updateTickOfPool(tk, poolId, tickIndex, liquidityIn, upper,
                          incentiveIDsCommittedTo)

\* -------------------------------------------------------------- crossTick

\* The precision of sdk.Dec (10^18 units to the whole), scaled down: the
\* seconds-per-liquidity figures are counted in units of 1/DecPrecision.
DecPrecision == 10

\* chopPrecisionAndRound: x / DecPrecision for x >= 0, rounded half to even.
chopPrecisionAndRound(x) ==
    LET q == x \div DecPrecision
        r == x % DecPrecision
    IN  IF 2 * r < DecPrecision THEN q
        ELSE IF 2 * r > DecPrecision THEN q + 1
        ELSE IF q % 2 = 0 THEN q ELSE q + 1

\* sdk.Dec.Quo of two whole numbers, in units of 1/DecPrecision: the
\* dividend is scaled by the precision twice, divided with truncation and
\* chopped back with rounding; the sign is that of the quotient.  The
\* divisor is not zero (big.Int.Quo panics on a zero divisor).
QuoDec(seconds, gross) ==
    LET mul == Abs(seconds) * DecPrecision * DecPrecision * DecPrecision
        quo == mul \div (Abs(gross) * DecPrecision)
        chopped == chopPrecisionAndRound(quo)
    IN  IF (seconds < 0) # (gross < 0) THEN -chopped ELSE chopped

\* The first loop divides the seconds inactive by the gross of every record
\* of the tick: a record with a gross of zero makes Quo panic.
dividesByZero(records) ==
    \E i \in DOMAIN records : records[i].IncentivizedLiquidityGross = 0

\* crossedRecords with the quotient stored in the record of the tick.
crossedRecords_Stored(records, secondsInactive) ==
    [i \in DOMAIN records |->
        [records[i] EXCEPT !.SecondsPerIncentivizedLiquidityOutside =
            QuoDec(secondsInactive, records[i].IncentivizedLiquidityGross)]]

\* The tick's records after the first loop.  The loop variable is a copy of
\* the record, so the quotient assigned to its
\* SecondsPerIncentivizedLiquidityOutside is dropped with it and the
\* records of tickInfo stay as they were read.
crossedRecords(records, secondsInactive) == records

\* The second loop reads the tick's i-th record for every index i of the
\* pool's list: out of range when the tick's list is the shorter one.
readsMissingRecord(poolRecords, tickRecords) ==
    Len(poolRecords) > Len(tickRecords)

\* The pool's records after the second loop.  The loop variable is a copy of
\* the pool record, so the sum assigned to its
\* SecondsPerIncentivizedLiquidityGlobal is dropped with it and the list
\* handed to SetPoolIncentivizedLiquidityRecords is the list that was read.
accumulatedPoolRecords(poolRecords, tickRecords) == poolRecords

\* crossTick with both sums stored: the quotient in the tick's record and
\* the quotient added to the pool's record of the same index.
crossTick_StoresAccumulators(tk, poolId, tickIndex) ==
    LET got == getTickInfo(tk, poolId, tickIndex)
        pool == getPoolById(poolId)
        records == got.tickInfo.TickIncentivizedLiquidityRecords
        stored == crossedRecords_Stored(records, Elapsed(pool))
        tickInfo == [got.tickInfo EXCEPT
                        !.SecondsInactive = Elapsed(pool),
                        !.TickIncentivizedLiquidityRecords = stored]
        poolRecords == pool.PoolIncentivizedLiquidityRecords
        written == SetTickInfo(tk, poolId, tickIndex, tickInfo)
    IN  IF got.err.kind # "nil"
        THEN [err |-> got.err, liquidityDelta |-> 0, ticks |-> tk,
              pools |-> pools]
        ELSE IF dividesByZero(records)
        THEN [err |-> Panic, liquidityDelta |-> 0, ticks |-> tk,
              pools |-> pools]
        ELSE IF readsMissingRecord(poolRecords, records)
        THEN [err |-> Panic, liquidityDelta |-> 0, ticks |-> written,
              pools |-> pools]
        ELSE [err |-> NoError, liquidityDelta |-> tickInfo.LiquidityNet,
              ticks |-> written,
              pools |-> [pools EXCEPT
                  ![poolId].PoolIncentivizedLiquidityRecords =
                      [i \in DOMAIN poolRecords |->
                          [poolRecords[i] EXCEPT
                              !.SecondsPerIncentivizedLiquidityGlobal = @ +
                                 stored[i].SecondsPerIncentivizedLiquidityOutside]]]]

\* crossTick over the tick store tk: the error, the liquidity delta it
\* returns, and the tick store and the pools it leaves.  A panic of the first
\* loop comes before the tick is set, a panic of the second loop after it.
crossTick(tk, poolId, tickIndex) ==
    LET got == getTickInfo(tk, poolId, tickIndex)
        pool == getPoolById(poolId)
        records == got.tickInfo.TickIncentivizedLiquidityRecords
        tickInfo == [got.tickInfo EXCEPT
                        !.SecondsInactive = Elapsed(pool),
                        !.TickIncentivizedLiquidityRecords =
                            crossedRecords(records, Elapsed(pool))]
        poolRecords == pool.PoolIncentivizedLiquidityRecords
        written == SetTickInfo(tk, poolId, tickIndex, tickInfo)
    IN  IF got.err.kind # "nil"
        THEN [err |-> got.err, liquidityDelta |-> 0, ticks |-> tk,
              pools |-> pools]
        ELSE IF dividesByZero(records)
        THEN [err |-> Panic, liquidityDelta |-> 0, ticks |-> tk,
              pools |-> pools]
        ELSE IF readsMissingRecord(poolRecords, records)
        THEN [err |-> Panic, liquidityDelta |-> 0, ticks |-> written,
              pools |-> pools]
        ELSE [err |-> NoError, liquidityDelta |-> tickInfo.LiquidityNet,
              ticks |-> written,
              pools |-> [pools EXCEPT
                  ![poolId].PoolIncentivizedLiquidityRecords =
                      accumulatedPoolRecords(poolRecords,
                          tickInfo.TickIncentivizedLiquidityRecords)]]

\* ------------------------------------------------------- position manager

InitialLiquidityZeroError(amount0, amount1) ==
    [kind |-> "InitialLiquidityZeroError", Amount0 |-> amount0,
     Amount1 |-> amount1]

InsufficientLiquidityCreatedError(actual, minimum, isTokenZero) ==
    [kind |-> "InsufficientLiquidityCreatedError", Actual |-> actual,
     Minimum |-> minimum, IsTokenZero |-> isTokenZero]

\* errors.New("liquidityDelta calculated equals zero")
ZeroLiquidityDeltaError == [kind |-> "ZeroLiquidityDelta"]

PositionNotFoundError(poolId, lowerTick, upperTick) ==
    [kind |-> "PositionNotFoundError", PoolId |-> poolId,
     LowerTick |-> lowerTick, UpperTick |-> upperTick]

InsufficientLiquidityError(actual, available) ==
    [kind |-> "InsufficientLiquidityError", Actual |-> actual,
     Available |-> available]

\* The token custody module's failure: the sender holds too little.
InsufficientFundsError == [kind |-> "InsufficientFunds"]

\* The custody address of a pool.
PoolAddress(poolId) == <<"pool", poolId>>

\* Every account is funded with this much of either token.
InitialFunds == MaxLiq

\* isIncentivized := len(incentiveIDsCommittedTo) > 0
isIncentivized(incentiveIDs) == Len(incentiveIDs) > 0

\* PositionKey without the incentivized flag of the call.
PositionKey_IgnoresIncentives(poolId, owner, lowerTick, upperTick, incentiveIDs) ==
    <<poolId, owner, lowerTick, upperTick, FALSE>>

\* The uniqueness key of a position.
PositionKey(poolId, owner, lowerTick, upperTick, incentiveIDs) ==
    <<poolId, owner, lowerTick, upperTick, isIncentivized(incentiveIDs)>>

\* isInitialPosition with the test of the price inverted.
isInitialPosition_PriceSet(pool) ==
    pool.CurrentSqrtPrice # 0 /\ pool.CurrentTick = 0

\* A pool that has no position yet has neither a tick nor a price.
isInitialPosition(pool) ==
    pool.CurrentSqrtPrice = 0 /\ pool.CurrentTick = 0

\* The pricing-math collaborator, a pure function of the amounts: the
\* liquidity both desired amounts can pay for.
GetLiquidityFromAmounts(amount0, amount1) ==
    IF amount0 < amount1 THEN amount0 ELSE amount1

\* The pricing-math collaborator: the amounts of either token that a
\* liquidity of this size is worth.
AmountsForLiquidity(liquidity) == <<liquidity, liquidity>>

\* The first position gives the pool its price.
initializeInitialPosition(pool) ==
    [pool EXCEPT !.CurrentSqrtPrice = 1]

\* The token custody module: amounts moved from sender to receiver.
sendCoins(bal, sender, receiver, amounts) ==
    [a \in DOMAIN bal |->
        IF a = sender THEN <<bal[a][1] - amounts[1], bal[a][2] - amounts[2]>>
        ELSE IF a = receiver
        THEN <<bal[a][1] + amounts[1], bal[a][2] + amounts[2]>>
        ELSE bal[a]]

hasFunds(bal, sender, amounts) ==
    bal[sender][1] >= amounts[1] /\ bal[sender][2] >= amounts[2]

\* The liquidity a position record holds (zero without a record).
positionLiquidity(pos, key) ==
    IF key \in DOMAIN pos THEN pos[key] ELSE 0

\* The position records after the liquidity of one changed by delta; a
\* position that reaches zero has no record.
updatePositionRecord(pos, key, delta) ==
    LET after == positionLiquidity(pos, key) + delta
    IN  IF after = 0
        THEN [k \in DOMAIN pos \ {key} |-> pos[k]]
        ELSE [k \in DOMAIN pos \cup {key} |-> IF k = key THEN after ELSE pos[k]]

\* The liquidity delta applied to both boundary ticks of a range: once at
\* lowerTick with upper = false, then at upperTick with upper = true.
updateBoundaryTicks(tk, poolId, lowerTick, upperTick, liquidityDelta, incentiveIDs) ==
    LET lo == initOrUpdateTick(tk, poolId, lowerTick, liquidityDelta, FALSE,
                               incentiveIDs)
    IN  IF lo.err.kind # "nil" THEN lo
        ELSE initOrUpdateTick(lo.ticks, poolId, upperTick, liquidityDelta,
                              TRUE, incentiveIDs)

\* The state a failed call leaves: the one it found.
Aborted(err) ==
    [err |-> err, pools |-> pools, ticks |-> ticks, positions |-> positions,
     balances |-> balances, amount0 |-> 0, amount1 |-> 0, liquidity |-> 0]

\* createPosition with the minimum amounts checked after the boundary ticks
\* were set, and the ticks left as set.
createPosition_MinimumAfterTicks(poolId, owner, amount0Desired, amount1Desired, amount0Min, amount1Min, lowerTick, upperTick, incentiveIDs) ==
    IF ~poolExists(poolId) THEN Aborted(PoolNotFoundError(poolId))
    ELSE
    LET pool == getPoolById(poolId)
        rangeErr == validateTickRangeIsValid(pool.TickSpacing, lowerTick,
                                             upperTick)
        initial == isInitialPosition(pool)
        liquidityDelta == GetLiquidityFromAmounts(amount0Desired,
                                                  amount1Desired)
        actual == AmountsForLiquidity(liquidityDelta)
        upd == updateBoundaryTicks(ticks, poolId, lowerTick, upperTick,
                                   liquidityDelta, incentiveIDs)
        key == PositionKey(poolId, owner, lowerTick, upperTick, incentiveIDs)
    IN  IF rangeErr.kind # "nil" THEN Aborted(rangeErr)
        ELSE IF initial /\ (amount0Desired = 0 \/ amount1Desired = 0)
        THEN Aborted(InitialLiquidityZeroError(amount0Desired, amount1Desired))
        ELSE IF liquidityDelta = 0 THEN Aborted(ZeroLiquidityDeltaError)
        ELSE IF upd.err.kind # "nil" THEN Aborted(upd.err)
        ELSE IF actual[1] < amount0Min
        THEN [Aborted(InsufficientLiquidityCreatedError(actual[1], amount0Min,
                                                        TRUE))
                 EXCEPT !.ticks = upd.ticks]
        ELSE IF actual[2] < amount1Min
        THEN [Aborted(InsufficientLiquidityCreatedError(actual[2], amount1Min,
                                                        FALSE))
                 EXCEPT !.ticks = upd.ticks]
        ELSE IF ~hasFunds(balances, owner, actual)
        THEN Aborted(InsufficientFundsError)
        ELSE [err |-> NoError,
              pools |-> IF initial
                        THEN [pools EXCEPT
                                 ![poolId] = initializeInitialPosition(pool)]
                        ELSE pools,
              ticks |-> upd.ticks,
              positions |-> updatePositionRecord(positions, key,
                                                 liquidityDelta),
              balances |-> sendCoins(balances, owner, PoolAddress(poolId),
                                     actual),
              amount0 |-> actual[1], amount1 |-> actual[2],
              liquidity |-> liquidityDelta]

\* createPosition: the error, what it returns and the state it leaves.
createPosition(poolId, owner, amount0Desired, amount1Desired, amount0Min, amount1Min, lowerTick, upperTick, incentiveIDs) ==
    IF ~poolExists(poolId) THEN Aborted(PoolNotFoundError(poolId))
    ELSE
    LET pool == getPoolById(poolId)
        rangeErr == validateTickRangeIsValid(pool.TickSpacing, lowerTick,
                                             upperTick)
        initial == isInitialPosition(pool)
        liquidityDelta == GetLiquidityFromAmounts(amount0Desired,
                                                  amount1Desired)
        actual == AmountsForLiquidity(liquidityDelta)
        upd == updateBoundaryTicks(ticks, poolId, lowerTick, upperTick,
                                   liquidityDelta, incentiveIDs)
        key == PositionKey(poolId, owner, lowerTick, upperTick, incentiveIDs)
    IN  IF rangeErr.kind # "nil" THEN Aborted(rangeErr)
        ELSE IF initial /\ (amount0Desired = 0 \/ amount1Desired = 0)
        THEN Aborted(InitialLiquidityZeroError(amount0Desired, amount1Desired))
        ELSE IF liquidityDelta = 0 THEN Aborted(ZeroLiquidityDeltaError)
        ELSE IF actual[1] < amount0Min
        THEN Aborted(InsufficientLiquidityCreatedError(actual[1], amount0Min,
                                                       TRUE))
        ELSE IF actual[2] < amount1Min
        THEN Aborted(InsufficientLiquidityCreatedError(actual[2], amount1Min,
                                                       FALSE))
        ELSE IF upd.err.kind # "nil" THEN Aborted(upd.err)
        ELSE IF ~hasFunds(balances, owner, actual)
        THEN Aborted(InsufficientFundsError)
        ELSE [err |-> NoError,
              pools |-> IF initial
                        THEN [pools EXCEPT
                                 ![poolId] = initializeInitialPosition(pool)]
                        ELSE pools,
              ticks |-> upd.ticks,
              positions |-> updatePositionRecord(positions, key,
                                                 liquidityDelta),
              balances |-> sendCoins(balances, owner, PoolAddress(poolId),
                                     actual),
              amount0 |-> actual[1], amount1 |-> actual[2],
              liquidity |-> liquidityDelta]

\* withdrawPosition without the check of the amount against the position.
withdrawPosition_NoLiquidityCheck(poolId, owner, lowerTick, upperTick, liquidityAmount, incentiveIDs) ==
    IF ~poolExists(poolId) THEN Aborted(PoolNotFoundError(poolId))
    ELSE
    LET pool == getPoolById(poolId)
        rangeErr == validateTickRangeIsValid(pool.TickSpacing, lowerTick,
                                             upperTick)
        key == PositionKey(poolId, owner, lowerTick, upperTick, incentiveIDs)
        available == positionLiquidity(positions, key)
        actual == AmountsForLiquidity(liquidityAmount)
        upd == updateBoundaryTicks(ticks, poolId, lowerTick, upperTick,
                                   -liquidityAmount, incentiveIDs)
    IN  IF rangeErr.kind # "nil" THEN Aborted(rangeErr)
        ELSE IF key \notin DOMAIN positions
        THEN Aborted(PositionNotFoundError(poolId, lowerTick, upperTick))
        ELSE IF upd.err.kind # "nil" THEN Aborted(upd.err)
        ELSE IF ~hasFunds(balances, PoolAddress(poolId), actual)
        THEN Aborted(InsufficientFundsError)
        ELSE [err |-> NoError, pools |-> pools, ticks |-> upd.ticks,
              positions |-> updatePositionRecord(positions, key,
                                                 -liquidityAmount),
              balances |-> sendCoins(balances, PoolAddress(poolId), owner,
                                     actual),
              amount0 |-> actual[1], amount1 |-> actual[2],
              liquidity |-> liquidityAmount]

\* withdrawPosition: the error, what it returns and the state it leaves.
withdrawPosition(poolId, owner, lowerTick, upperTick, liquidityAmount, incentiveIDs) ==
    IF ~poolExists(poolId) THEN Aborted(PoolNotFoundError(poolId))
    ELSE
    LET pool == getPoolById(poolId)
        rangeErr == validateTickRangeIsValid(pool.TickSpacing, lowerTick,
                                             upperTick)
        key == PositionKey(poolId, owner, lowerTick, upperTick, incentiveIDs)
        available == positionLiquidity(positions, key)
        actual == AmountsForLiquidity(liquidityAmount)
        upd == updateBoundaryTicks(ticks, poolId, lowerTick, upperTick,
                                   -liquidityAmount, incentiveIDs)
    IN  IF rangeErr.kind # "nil" THEN Aborted(rangeErr)
        ELSE IF key \notin DOMAIN positions
        THEN Aborted(PositionNotFoundError(poolId, lowerTick, upperTick))
        ELSE IF liquidityAmount > available
        THEN Aborted(InsufficientLiquidityError(liquidityAmount, available))
        ELSE IF upd.err.kind # "nil" THEN Aborted(upd.err)
        ELSE IF ~hasFunds(balances, PoolAddress(poolId), actual)
        THEN Aborted(InsufficientFundsError)
        ELSE [err |-> NoError, pools |-> pools, ticks |-> upd.ticks,
              positions |-> updatePositionRecord(positions, key,
                                                 -liquidityAmount),
              balances |-> sendCoins(balances, PoolAddress(poolId), owner,
                                     actual),
              amount0 |-> actual[1], amount1 |-> actual[2],
              liquidity |-> liquidityAmount]

\* ------------------------------------------------------------------ state

\* The tick spacings a pool is created with.
PoolSpacings == {1, 2}

\* Amounts a caller asks for, and the minimum amounts a caller accepts.
Amounts == {0, 1, MaxLiq}
Minimums == {<<0, 0>>, <<MaxLiq, 0>>, <<0, MaxLiq>>}

\* What a position call did not record.
NoCall == [op |-> "none", err |-> NoError, requested |-> 0, held |-> 0]

\* The goroutines, and the arguments RecordValue is called with.
Goroutines == 1..MaxGoroutines
Ips == {"10.0.0.1", "10.0.0.2"}
Names == {"bytes"}
RecordedValues == {1, 2}

\* A goroutine that has not called Instance().
NoCaller == [pc |-> "idle", m |-> 0, ret |-> 0]

\* A goroutine that is in no call.
NoFrame == [ip |-> "", name |-> "", value |-> 0, sum |-> 0, ret |-> <<>>]

Init ==
    /\ \E tickSpacing \in PoolSpacings, ids \in PoolIdLists :
          pools = [p \in {ExistingPoolId} |-> NewPool(tickSpacing, ids)]
    /\ ticks = <<>>
    /\ positions = <<>>
    /\ balances = [a \in Owners \cup {PoolAddress(ExistingPoolId)} |->
                      IF a \in Owners THEN <<InitialFunds, InitialFunds>>
                      ELSE <<0, 0>>]
    /\ blockTime = 0
    /\ last = NoCall
    /\ crossed = <<>>
    /\ mu = [writer |-> 0, readers |-> {}]
    /\ values = <<>>
    /\ pc = [g \in Goroutines |-> "idle"]
    /\ frame = [g \in Goroutines |-> NoFrame]
    /\ recorded = [k \in Ips \X Names |-> 0]
    /\ instance = 0
    /\ objects = <<>>
    /\ caller = [g \in Goroutines |-> NoCaller]

\* ---------------------------------------------------------------- actions

\* The errors whose fields only repeat the tick arguments of the call.
EchoKinds ==
    {"TickSpacingError", "InvalidTickError", "InvalidLowerUpperTickError",
     "PositionNotFoundError"}

\* The error as a position call's record keeps it: an error that only
\* repeats the arguments is kept by its kind.
observedErr(err) ==
    IF err.kind \in EchoKinds THEN [kind |-> err.kind] ELSE err

\* The state and the record a position call leaves.
Returned(op, r, requested, held) ==
    /\ pools' = r.pools
    /\ ticks' = r.ticks
    /\ positions' = r.positions
    /\ balances' = r.balances
    /\ last' = [op |-> op, err |-> observedErr(r.err),
                requested |-> requested, held |-> held]
    /\ UNCHANGED <<blockTime, crossed, metricsVars>>

\* A createPosition call on the registered pool, with any arguments.
CreatePosition ==
    \E owner \in Owners, amount0Desired \in Amounts,
       amount1Desired \in Amounts, minimum \in Minimums,
       lowerTick \in RangeTicks, upperTick \in RangeTicks,
       incentiveIDs \in PositionIdLists :
        Returned("createPosition",
                 createPosition(ExistingPoolId, owner, amount0Desired,
                                amount1Desired, minimum[1], minimum[2],
                                lowerTick, upperTick, incentiveIDs),
                 0, 0)

\* A createPosition call on a pool id that is not registered.
CreatePositionNoPool ==
    \E owner \in Owners, lowerTick \in {MinTick, 0},
       incentiveIDs \in PositionIdLists :
        Returned("createPosition",
                 createPosition(MissingPoolId, owner, MaxLiq, MaxLiq, 0, 0,
                                lowerTick, MaxTick, incentiveIDs),
                 0, 0)

\* A withdrawPosition call on the registered pool, with any range and a
\* positive amount.
WithdrawPosition ==
    \E owner \in Owners, lowerTick \in RangeTicks, upperTick \in RangeTicks,
       liquidityAmount \in 1..(MaxLiq + 1), incentiveIDs \in PositionIdLists :
        Returned("withdrawPosition",
                 withdrawPosition(ExistingPoolId, owner, lowerTick, upperTick,
                                  liquidityAmount, incentiveIDs),
                 liquidityAmount,
                 positionLiquidity(positions,
                     PositionKey(ExistingPoolId, owner, lowerTick, upperTick,
                                 incentiveIDs)))

\* A withdrawPosition call on a pool id that is not registered.
WithdrawPositionNoPool ==
    \E owner \in Owners, lowerTick \in {MinTick, 0},
       incentiveIDs \in PositionIdLists :
        Returned("withdrawPosition",
                 withdrawPosition(MissingPoolId, owner, lowerTick, MaxTick, 1,
                                  incentiveIDs),
                 1, 0)

NextLP ==
    \/ CreatePosition
    \/ CreatePositionNoPool
    \/ WithdrawPosition
    \/ WithdrawPositionNoPool

\* Positions are created and withdrawn.
SpecLP == Init /\ [][NextLP]_vars

\* A validateTickRangeIsValid call with any arguments.
ValidateTickRange ==
    \E tickSpacing \in TickSpacings, lowerTick \in TickInputs,
       upperTick \in TickInputs :
        /\ last' = [op |-> "validateTickRangeIsValid",
                    tickSpacing |-> tickSpacing, lowerTick |-> lowerTick,
                    upperTick |-> upperTick,
                    err |-> validateTickRangeIsValid(tickSpacing, lowerTick,
                                                     upperTick)]
        /\ UNCHANGED <<pools, ticks, positions, balances, blockTime, crossed, metricsVars>>

NextValidate == ValidateTickRange

\* Tick ranges are validated.
SpecValidate == Init /\ [][NextValidate]_vars

\* The tick indexes getTickInfo is called with directly, and the one among
\* them that initOrUpdateTick is called with; neither validates the index.
DirectTicks == {0, MaxTick + 1}
WrittenTicks == {MaxTick + 1}

\* The liquidity deltas initOrUpdateTick is called with directly.
Deltas == {-1, 0, 1}

\* Every liquidity figure of a tick is within the bound of the model.
WithinGross(tickInfo) ==
    /\ Abs(tickInfo.LiquidityGross) <= MaxGross
    /\ Abs(tickInfo.LiquidityNet) <= MaxGross
    /\ \A i \in DOMAIN tickInfo.TickIncentivizedLiquidityRecords :
          LET rec == tickInfo.TickIncentivizedLiquidityRecords[i]
          IN  /\ Abs(rec.IncentivizedLiquidityGross) <= MaxGross
              /\ Abs(rec.IncentivizedLiquidityNet) <= MaxGross

\* An initOrUpdateTick call on one of these pool ids, committing to one of
\* these lists of incentive ids.
InitOrUpdateTickFrom(poolIds, idLists) ==
    \E poolId \in poolIds, tickIndex \in WrittenTicks, liquidityIn \in Deltas,
       upper \in BOOLEAN, incentiveIDs \in idLists :
        LET r == initOrUpdateTick(ticks, poolId, tickIndex, liquidityIn,
                                  upper, incentiveIDs)
        IN  /\ \A k \in DOMAIN r.ticks : WithinGross(r.ticks[k])
            /\ ticks' = r.ticks
            /\ last' = [op |-> "initOrUpdateTick", poolId |-> poolId,
                        tickIndex |-> tickIndex, err |-> r.err]
            /\ UNCHANGED <<pools, positions, balances, blockTime, crossed, metricsVars>>

\* An initOrUpdateTick call with any arguments.
InitOrUpdateTick == InitOrUpdateTickFrom(PoolIds, IdLists)

\* A getTickInfo call with any arguments.
GetTickInfo ==
    \E poolId \in PoolIds, tickIndex \in DirectTicks :
        LET r == getTickInfo(ticks, poolId, tickIndex)
        IN  /\ last' = [op |-> "getTickInfo", poolId |-> poolId,
                        tickIndex |-> tickIndex, err |-> r.err,
                        tickInfo |-> r.tickInfo]
            /\ UNCHANGED <<pools, ticks, positions, balances, blockTime, crossed, metricsVars>>

\* The pool gets one more incentive record, with the next id.
AddPoolIncentive ==
    LET pool == pools[ExistingPoolId]
        n == Len(pool.PoolIncentivizedLiquidityRecords)
    IN  /\ n < MaxIncentives
        /\ pools' = [pools EXCEPT
              ![ExistingPoolId].PoolIncentivizedLiquidityRecords =
                  Append(@, PoolRecord(n + 1))]
        /\ last' = [op |-> "addPoolIncentive", poolId |-> ExistingPoolId,
                    err |-> NoError]
        /\ UNCHANGED <<ticks, positions, balances, blockTime, crossed, metricsVars>>

NextTick ==
    \/ InitOrUpdateTick
    \/ GetTickInfo
    \/ AddPoolIncentive

\* Ticks are read and updated directly while the pool's incentives grow.
SpecTick == Init /\ [][NextTick]_vars

\* The SecondsPerIncentivizedLiquidityOutside of every record of a tick.
outsideOf(tickInfo) ==
    [i \in DOMAIN tickInfo.TickIncentivizedLiquidityRecords |->
        tickInfo.TickIncentivizedLiquidityRecords[i]
            .SecondsPerIncentivizedLiquidityOutside]

\* A crossTick call with any arguments.  The record of the call keeps
\* whether the tick was crossed before.
CrossTick ==
    \E poolId \in PoolIds, tickIndex \in WrittenTicks :
        LET r == crossTick(ticks, poolId, tickIndex)
            key == KeyTick(poolId, tickIndex)
        IN  /\ ticks' = r.ticks
            /\ pools' = r.pools
            /\ last' = [op |-> "crossTick", poolId |-> poolId,
                        tickIndex |-> tickIndex, err |-> r.err,
                        liquidityDelta |-> r.liquidityDelta,
                        second |-> key \in DOMAIN crossed]
            /\ crossed' =
                  IF r.err = NoError
                  THEN [k \in DOMAIN crossed \cup {key} |->
                           IF k = key THEN outsideOf(r.ticks[key])
                           ELSE crossed[k]]
                  ELSE crossed
            /\ UNCHANGED <<positions, balances, blockTime, metricsVars>>

\* The block time moves on by a second.
AdvanceTime ==
    /\ blockTime < MaxTime
    /\ blockTime' = blockTime + 1
    /\ last' = [op |-> "advanceTime", poolId |-> ExistingPoolId,
                err |-> NoError]
    /\ UNCHANGED <<pools, ticks, positions, balances, crossed, metricsVars>>

\* The lists of incentive ids the boundary updates between two crosses
\* commit to: none, the first of the pool or both of the pool.
CrossIdLists == {<<>>, <<1>>, <<1, 2>>}

\* A position is created or withdrawn at the tick: its boundary update.
UpdateBoundary == InitOrUpdateTickFrom({ExistingPoolId}, CrossIdLists)

NextCross ==
    \/ UpdateBoundary
    \/ CrossTick
    \/ AdvanceTime

\* Ticks are updated and crossed while time passes.
SpecCross == Init /\ [][NextCross]_vars

\* An initOrUpdateTick call on the registered pool, with any other
\* arguments; the record of the call keeps all of them, and whether the call before was an initOrUpdateTick of the
\* same tick that returned no error.
InitOrUpdateTickCall ==
    \E poolId \in {ExistingPoolId}, tickIndex \in WrittenTicks, liquidityIn \in Deltas,
       upper \in BOOLEAN, incentiveIDs \in IdLists :
        LET r == initOrUpdateTick(ticks, poolId, tickIndex, liquidityIn,
                                  upper, incentiveIDs)
        IN  /\ \A k \in DOMAIN r.ticks : WithinGross(r.ticks[k])
            /\ ticks' = r.ticks
            /\ last' = [op |-> "initOrUpdateTick", poolId |-> poolId,
                        tickIndex |-> tickIndex, liquidityIn |-> liquidityIn,
                        upper |-> upper, incentiveIDs |-> incentiveIDs,
                        err |-> r.err,
                        again |-> /\ last.op = "initOrUpdateTick"
                                  /\ last.err = NoError
                                  /\ last.poolId = poolId
                                  /\ last.tickIndex = tickIndex]
            /\ UNCHANGED <<pools, positions, balances, blockTime, crossed, metricsVars>>

NextUpdate ==
    \/ InitOrUpdateTickCall
    \/ AddPoolIncentive

\* Ticks are updated, every call recorded whole, while the pool's incentives
\* grow.
SpecUpdate == Init /\ [][NextUpdate]_vars

\* The lists of incentive ids the calls that are taken back commit to.
UndoIdLists == {<<>>, <<1>>, <<1, 2>>}

\* The liquidity deltas of the calls that are taken back.
UndoDeltas == {-1, 1}

\* An initOrUpdateTick call on the registered pool; the record of the call
\* keeps its arguments, the tick as it was stored before the call, and
\* whether the call takes back the call before it: an initOrUpdateTick of
\* the same tick with the opposite delta, the same boundary flag and the
\* same committed incentive ids.
InitOrUpdateTickRecorded ==
    \E poolId \in {ExistingPoolId}, tickIndex \in WrittenTicks, liquidityIn \in UndoDeltas,
       upper \in BOOLEAN, incentiveIDs \in UndoIdLists :
        LET r == initOrUpdateTick(ticks, poolId, tickIndex, liquidityIn,
                                  upper, incentiveIDs)
            key == KeyTick(poolId, tickIndex)
        IN  /\ \A k \in DOMAIN r.ticks : WithinGross(r.ticks[k])
            /\ ticks' = r.ticks
            /\ last' = [op |-> "initOrUpdateTick", poolId |-> poolId,
                        tickIndex |-> tickIndex, liquidityIn |-> liquidityIn,
                        upper |-> upper, incentiveIDs |-> incentiveIDs,
                        err |-> r.err,
                        before |-> IF key \in DOMAIN ticks THEN ticks[key]
                                   ELSE ZeroTickInfo,
                        undoes |-> /\ last.op = "initOrUpdateTick"
                                   /\ last.poolId = poolId
                                   /\ last.tickIndex = tickIndex
                                   /\ last.liquidityIn = -liquidityIn
                                   /\ last.upper = upper
                                   /\ last.incentiveIDs = incentiveIDs]
            /\ UNCHANGED <<pools, positions, balances, blockTime, crossed, metricsVars>>

NextUndo ==
    \/ InitOrUpdateTickRecorded
    \/ AddPoolIncentive

\* Ticks are updated, every call recorded with the tick it found, while the
\* pool's incentives grow.
SpecUndo == Init /\ [][NextUndo]_vars

\* The lists of incentive ids the incentivized position calls commit to.
IncentivizedIdLists == {<<1>>, <<1, 2>>}

\* The tick indexes of the ranges of the incentivized position calls.
IncentivizedTicks == {MinTick, 0, MaxTick}

\* No incentive record of the ticks holds a figure beyond the funds of an
\* account: the bound of the model on what mismatched lists leave behind.
WithinFunds(tk) ==
    \A k \in DOMAIN tk :
        \A i \in DOMAIN tk[k].TickIncentivizedLiquidityRecords :
            LET rec == tk[k].TickIncentivizedLiquidityRecords[i]
            IN  /\ Abs(rec.IncentivizedLiquidityGross) <= InitialFunds
                /\ Abs(rec.IncentivizedLiquidityNet) <= InitialFunds

\* A createPosition call of an incentivized position, with no minimum
\* amounts.
CreateIncentivizedPosition ==
    \E owner \in Owners, amount \in 1..MaxLiq,
       lowerTick \in IncentivizedTicks, upperTick \in IncentivizedTicks,
       incentiveIDs \in IncentivizedIdLists :
        LET r == createPosition(ExistingPoolId, owner, amount, amount, 0, 0,
                                lowerTick, upperTick, incentiveIDs)
        IN  /\ WithinFunds(r.ticks)
            /\ Returned("createPosition", r, 0, 0)

\* A withdrawPosition call on an incentivized position, passing a list of
\* incentive ids of its own.
WithdrawIncentivizedPosition ==
    \E owner \in Owners, lowerTick \in IncentivizedTicks,
       upperTick \in IncentivizedTicks, liquidityAmount \in 1..MaxLiq,
       incentiveIDs \in IncentivizedIdLists :
        LET r == withdrawPosition(ExistingPoolId, owner, lowerTick, upperTick,
                                  liquidityAmount, incentiveIDs)
        IN  /\ WithinFunds(r.ticks)
            /\ Returned("withdrawPosition", r, liquidityAmount,
                        positionLiquidity(positions,
                            PositionKey(ExistingPoolId, owner, lowerTick,
                                        upperTick, incentiveIDs)))

NextIncentives ==
    \/ CreateIncentivizedPosition
    \/ WithdrawIncentivizedPosition

\* Incentivized positions are created and withdrawn.
SpecIncentives == Init /\ [][NextIncentives]_vars

\* The id the next pool gets: the first id that is not registered.
SecondPoolId == MissingPoolId

\* PrepareConcentratedPool: one more pool is registered, with no incentive
\* records.
PrepareConcentratedPool ==
    /\ SecondPoolId \notin DOMAIN pools
    /\ \E tickSpacing \in {1} :
          pools' = [p \in DOMAIN pools \cup {SecondPoolId} |->
                       IF p = SecondPoolId THEN NewPool(tickSpacing, <<>>)
                       ELSE pools[p]]
    /\ last' = [op |-> "prepareConcentratedPool", poolId |-> SecondPoolId,
                err |-> NoError]
    /\ UNCHANGED <<ticks, positions, balances, blockTime, crossed, metricsVars>>

\* The tick indexes and the liquidity deltas of the initOrUpdateTick calls
\* that are made on the ticks of two pools.
FrameTicks == {0, MaxTick + 1}
FrameDeltas == {0, 1}

\* An initOrUpdateTick call on a tick of either pool, committing to no
\* incentive.
InitOrUpdateTickOfPools ==
    \E poolId \in PoolIds, tickIndex \in FrameTicks,
       liquidityIn \in FrameDeltas, upper \in BOOLEAN :
        LET r == initOrUpdateTick(ticks, poolId, tickIndex, liquidityIn,
                                  upper, <<>>)
        IN  /\ \A k \in DOMAIN r.ticks : WithinGross(r.ticks[k])
            /\ ticks' = r.ticks
            /\ last' = [op |-> "initOrUpdateTick", poolId |-> poolId,
                        tickIndex |-> tickIndex, err |-> r.err]
            /\ UNCHANGED <<pools, positions, balances, blockTime, crossed, metricsVars>>

NextFrame ==
    \/ PrepareConcentratedPool
    \/ InitOrUpdateTickOfPools

\* The ticks of two pools are updated.
SpecFrame == Init /\ [][NextFrame]_vars

\* The tick indexes position calls are made with when the whole call is
\* recorded: both ends of the valid range, the middle and one beyond.
CallTicks == {MinTick, 0, MaxTick, MaxTick + 1}

\* The desired amounts of those calls, as <<amount0, amount1>>.
DesiredAmounts == {<<0, 0>>, <<0, 1>>, <<1, 0>>, <<1, 1>>, <<MaxLiq, MaxLiq>>}

\* The state a position call leaves, and the record of the whole call: its
\* arguments, the liquidity the position held before, and what it returned.
Called(op, r, call) ==
    /\ pools' = r.pools
    /\ ticks' = r.ticks
    /\ positions' = r.positions
    /\ balances' = r.balances
    /\ last' = [op |-> op, err |-> r.err, amount0 |-> r.amount0,
                amount1 |-> r.amount1, liquidity |-> r.liquidity,
                poolId |-> call.poolId, owner |-> call.owner,
                lowerTick |-> call.lowerTick, upperTick |-> call.upperTick,
                incentiveIDs |-> call.incentiveIDs,
                desired |-> call.desired, requested |-> call.requested,
                held |-> positionLiquidity(positions,
                            PositionKey(call.poolId, call.owner,
                                        call.lowerTick, call.upperTick,
                                        call.incentiveIDs))]
    /\ UNCHANGED <<blockTime, crossed, metricsVars>>

\* A createPosition call with no minimum amounts, on either pool id.
CreatePositionCall ==
    \E owner \in Owners, desired \in DesiredAmounts,
       lowerTick \in CallTicks, upperTick \in CallTicks,
       incentiveIDs \in PositionIdLists :
        \E poolId \in IF lowerTick = MinTick /\ upperTick = 0
                       THEN PoolIds ELSE {ExistingPoolId} :
            Called("createPosition",
                   createPosition(poolId, owner, desired[1], desired[2], 0, 0,
                                  lowerTick, upperTick, incentiveIDs),
                   [poolId |-> poolId, owner |-> owner,
                    lowerTick |-> lowerTick, upperTick |-> upperTick,
                    incentiveIDs |-> incentiveIDs, desired |-> desired,
                    requested |-> 0])

\* A withdrawPosition call of a positive amount, on either pool id.
WithdrawPositionCall ==
    \E owner \in Owners, lowerTick \in CallTicks, upperTick \in CallTicks,
       liquidityAmount \in 1..MaxLiq, incentiveIDs \in PositionIdLists :
        \E poolId \in IF lowerTick = MinTick /\ upperTick = 0
                       THEN PoolIds ELSE {ExistingPoolId} :
            Called("withdrawPosition",
                   withdrawPosition(poolId, owner, lowerTick, upperTick,
                                    liquidityAmount, incentiveIDs),
                   [poolId |-> poolId, owner |-> owner,
                    lowerTick |-> lowerTick, upperTick |-> upperTick,
                    incentiveIDs |-> incentiveIDs, desired |-> <<0, 0>>,
                    requested |-> liquidityAmount])

NextCalls ==
    \/ CreatePositionCall
    \/ WithdrawPositionCall

\* Positions are created and withdrawn, every call recorded whole.
SpecCalls == Init /\ [][NextCalls]_vars

\* ---------------------------------------------------------------- metrics

\* m.mu.Lock() that waits for nobody.
canLock_Ignored(m) == TRUE

\* m.mu.Lock() goes through when no goroutine holds the lock, for writing or
\* for reading.
canLock(m) == m.writer = 0 /\ m.readers = {}

\* m.mu.RLock() goes through when no goroutine holds the lock for writing.
canRLock(m) == m.writer = 0

\* m.values[ip][name] as Go reads it: zero for a key that is not there.
valueOf(vals, ip, name) ==
    IF ip \in DOMAIN vals /\ name \in DOMAIN vals[ip] THEN vals[ip][name]
    ELSE 0

\* fmt.Sprintf("%.18f", value) with the zeros and the point at its end
\* trimmed: for a whole number, its decimal numeral.
formatValue(value) == ToString(value)

\* The map GetValues builds: every ip, and under it every name whose value
\* is not zero, with the value formatted.
formattedValues(vals) ==
    [ip \in DOMAIN vals |->
        [name \in {n \in DOMAIN vals[ip] : vals[ip][n] # 0} |->
            formatValue(vals[ip][name])]]

\* Goroutine g calls RecordValue(ip, name, value).
RecordValueCall(g) ==
    \E ip \in Ips, name \in Names, value \in RecordedValues :
        /\ pc[g] = "idle"
        /\ recorded[<<ip, name>>] + value <= MaxRecorded
        /\ recorded' = [recorded EXCEPT ![<<ip, name>>] = @ + value]
        /\ frame' = [frame EXCEPT
                         ![g] = [NoFrame EXCEPT !.ip = ip, !.name = name,
                                                !.value = value]]
        /\ pc' = [pc EXCEPT ![g] = "lock"]
        /\ UNCHANGED <<mu, values, keeperVars, instanceVars>>

\* m.mu.Lock()
RecordValueLock(g) ==
    /\ pc[g] = "lock"
    /\ canLock(mu)
    /\ mu' = [mu EXCEPT !.writer = g]
    /\ pc' = [pc EXCEPT ![g] = "check"]
    /\ UNCHANGED <<values, frame, recorded, keeperVars, instanceVars>>

\* if _, ok := m.values[ip]; !ok { m.values[ip] = make(map[string]float64) }
RecordValueCheck(g) ==
    /\ pc[g] = "check"
    /\ values' = IF frame[g].ip \in DOMAIN values THEN values
                 ELSE (frame[g].ip :> <<>>) @@ values
    /\ pc' = [pc EXCEPT ![g] = "read"]
    /\ UNCHANGED <<mu, frame, recorded, keeperVars, instanceVars>>

\* m.values[ip][name] += value, its read and its addition.
RecordValueRead(g) ==
    /\ pc[g] = "read"
    /\ frame' = [frame EXCEPT
                     ![g].sum = valueOf(values, frame[g].ip, frame[g].name)
                                + frame[g].value]
    /\ pc' = [pc EXCEPT ![g] = "write"]
    /\ UNCHANGED <<mu, values, recorded, keeperVars, instanceVars>>

\* m.values[ip][name] += value, its write.
RecordValueWrite(g) ==
    /\ pc[g] = "write"
    /\ values' = [values EXCEPT
                      ![frame[g].ip] = (frame[g].name :> frame[g].sum) @@ @]
    /\ pc' = [pc EXCEPT ![g] = "unlock"]
    /\ UNCHANGED <<mu, frame, recorded, keeperVars, instanceVars>>

\* defer m.mu.Unlock()
RecordValueUnlock(g) ==
    /\ pc[g] = "unlock"
    /\ mu' = [mu EXCEPT !.writer = 0]
    /\ pc' = [pc EXCEPT ![g] = "idle"]
    /\ frame' = [frame EXCEPT ![g] = NoFrame]
    /\ UNCHANGED <<values, recorded, keeperVars, instanceVars>>

\* Goroutine g calls GetValues().
GetValuesCall(g) ==
    /\ pc[g] = "idle"
    /\ pc' = [pc EXCEPT ![g] = "rlock"]
    /\ UNCHANGED <<mu, values, frame, recorded, keeperVars, instanceVars>>

\* m.mu.RLock()
GetValuesRLock(g) ==
    /\ pc[g] = "rlock"
    /\ canRLock(mu)
    /\ mu' = [mu EXCEPT !.readers = @ \cup {g}]
    /\ pc' = [pc EXCEPT ![g] = "iterate"]
    /\ UNCHANGED <<values, frame, recorded, keeperVars, instanceVars>>

\* The loops over m.values that fill ret.
GetValuesIterate(g) ==
    /\ pc[g] = "iterate"
    /\ frame' = [frame EXCEPT ![g].ret = formattedValues(values)]
    /\ pc' = [pc EXCEPT ![g] = "runlock"]
    /\ UNCHANGED <<mu, values, recorded, keeperVars, instanceVars>>

\* defer m.mu.RUnlock(); return ret
GetValuesRUnlock(g) ==
    /\ pc[g] = "runlock"
    /\ mu' = [mu EXCEPT !.readers = @ \ {g}]
    /\ pc' = [pc EXCEPT ![g] = "idle"]
    /\ frame' = [frame EXCEPT ![g] = NoFrame]
    /\ UNCHANGED <<values, recorded, keeperVars, instanceVars>>

NextMetrics ==
    \E g \in Goroutines :
        \/ RecordValueCall(g)
        \/ RecordValueLock(g)
        \/ RecordValueCheck(g)
        \/ RecordValueRead(g)
        \/ RecordValueWrite(g)
        \/ RecordValueUnlock(g)
        \/ GetValuesCall(g)
        \/ GetValuesRLock(g)
        \/ GetValuesIterate(g)
        \/ GetValuesRUnlock(g)

\* Goroutines record values and read them, in any interleaving.
SpecMetrics == Init /\ [][NextMetrics]_vars

\* ---------------------------------------------------------------- Instance

\* Goroutine g calls Instance().
InstanceCall(g) ==
    /\ caller[g].pc = "idle"
    /\ caller' = [caller EXCEPT ![g].pc = "check"]
    /\ UNCHANGED <<instance, objects, mu, values, pc, frame, recorded, keeperVars>>

\* if instance == nil: a read of the package variable under no lock.
InstanceCheck(g) ==
    /\ caller[g].pc = "check"
    /\ caller' = [caller EXCEPT
                      ![g].pc = IF instance = 0 THEN "new" ELSE "return"]
    /\ UNCHANGED <<instance, objects, mu, values, pc, frame, recorded, keeperVars>>

\* newMetrics(): one more Metrics object, with an empty values map.
InstanceNew(g) ==
    /\ caller[g].pc = "new"
    /\ objects' = Append(objects, <<>>)
    /\ caller' = [caller EXCEPT ![g].pc = "store", ![g].m = Len(objects) + 1]
    /\ UNCHANGED <<instance, mu, values, pc, frame, recorded, keeperVars>>

\* instance = newMetrics(), its write of the package variable.
InstanceStore(g) ==
    /\ caller[g].pc = "store"
    /\ instance' = caller[g].m
    /\ caller' = [caller EXCEPT ![g].pc = "return"]
    /\ UNCHANGED <<objects, mu, values, pc, frame, recorded, keeperVars>>

\* What the read of the package variable in "return instance" can give: the
\* variable as it is in memory, or, for the goroutine that has just written
\* it, the value it wrote, another goroutine's write in between being
\* ordered with neither.
readsOfInstance(g) ==
    {instance} \cup (IF caller[g].m # 0 THEN {caller[g].m} ELSE {})

\* return instance
InstanceReturn(g) ==
    /\ caller[g].pc = "return"
    /\ \E ret \in readsOfInstance(g) :
          caller' = [caller EXCEPT ![g] = [pc |-> "idle", m |-> 0, ret |-> ret]]
    /\ UNCHANGED <<instance, objects, mu, values, pc, frame, recorded, keeperVars>>

\* Goroutine g calls RecordValue(ip, name, value) on the object its latest
\* Instance() returned; the call holds the write lock of that object from
\* its first statement to its return.
RecordValueThrough(g) ==
    \E ip \in Ips, name \in Names, value \in RecordedValues :
        /\ caller[g].pc = "idle"
        /\ caller[g].ret # 0
        /\ recorded[<<ip, name>>] + value <= MaxRecorded
        /\ recorded' = [recorded EXCEPT ![<<ip, name>>] = @ + value]
        /\ objects' = [objects EXCEPT
              ![caller[g].ret] =
                  LET vals == IF ip \in DOMAIN @ THEN @ ELSE (ip :> <<>>) @@ @
                  IN  [vals EXCEPT
                          ![ip] = (name :> valueOf(vals, ip, name) + value) @@ @]]
        /\ UNCHANGED <<instance, caller, mu, values, pc, frame, keeperVars>>

NextInstance ==
    \E g \in Goroutines :
        \/ InstanceCall(g)
        \/ InstanceCheck(g)
        \/ InstanceNew(g)
        \/ InstanceStore(g)
        \/ InstanceReturn(g)
        \/ RecordValueThrough(g)

\* Goroutines ask for the metrics singleton and record values through what
\* they get, in any interleaving.
SpecInstance == Init /\ [][NextInstance]_vars

\* ----------------------------------------------------------------- claims

\* The sum of LiquidityNet over the ticks tk stores under keys.
RECURSIVE sumLiquidityNet(_, _)
sumLiquidityNet(tk, keys) ==
    IF keys = {} THEN 0
    ELSE LET k == CHOOSE x \in keys : TRUE
         IN  tk[k].LiquidityNet + sumLiquidityNet(tk, keys \ {k})

\* The keys of the stored ticks of one pool.
ticksOfPool(poolId) == {k \in DOMAIN ticks : k[1] = poolId}

\* The state a position call may change.
ledger == <<pools, ticks, positions, balances>>

\* C1: after any sequence of createPosition and withdrawPosition calls the
\* LiquidityNet of all stored ticks of a pool sums to exactly zero.
C1_NetSumsToZero ==
    \A poolId \in DOMAIN pools :
        sumLiquidityNet(ticks, ticksOfPool(poolId)) = 0

\* After a successful withdrawal a position remains, and its two boundary
\* ticks hold nets of opposite sign.
C1_Witness ==
    /\ last.op = "withdrawPosition" /\ last.err = NoError
    /\ positions # <<>>
    /\ \E k \in DOMAIN ticks : ticks[k].LiquidityNet > 0
    /\ \E k \in DOMAIN ticks : ticks[k].LiquidityNet < 0

\* C2: after any sequence of createPosition and withdrawPosition calls, no
\* withdrawal taking more than the position holds, the LiquidityGross of
\* every stored tick is at least zero.
C2_GrossNotNegative ==
    \A k \in DOMAIN ticks : ticks[k].LiquidityGross >= 0

\* A withdrawal took one tick back to a gross of zero while another tick
\* still holds liquidity.
C2_Witness ==
    /\ last.op = "withdrawPosition" /\ last.err = NoError
    /\ \E k \in DOMAIN ticks : ticks[k].LiquidityGross = 0
    /\ \E k \in DOMAIN ticks : ticks[k].LiquidityGross > 0

C10_WithdrawTooMuchFails ==
    [][(last'.op = "withdrawPosition" /\ last'.held > 0
            /\ last'.requested > last'.held)
        => /\ last'.err = InsufficientLiquidityError(last'.requested,
                                                     last'.held)
           /\ UNCHANGED ledger]_vars

\* A withdrawal of more than a position holds was refused.
C10_Witness ==
    /\ last.op = "withdrawPosition"
    /\ last.held > 0
    /\ last.requested = last.held + 1
    /\ last.err = InsufficientLiquidityError(last.requested, last.held)

\* t is a multiple of tickSpacing.
Divisible(t, tickSpacing) ==
    \E q \in (-Abs(t))..Abs(t) : q * tickSpacing = t

\* Both ticks pass the spacing check and the two bounds checks of the code.
PassesSpacingAndBounds(tickSpacing, lowerTick, upperTick) ==
    /\ Divisible(lowerTick, tickSpacing)
    /\ Divisible(upperTick, tickSpacing)
    /\ MinTick <= lowerTick /\ lowerTick < MaxTick
    /\ MinTick < upperTick /\ upperTick <= MaxTick

C5_ValidIffInRangeOrderedAligned ==
    last.op = "validateTickRangeIsValid"
        => ((last.err = NoError)
            <=> /\ last.lowerTick < last.upperTick
                /\ MinTick <= last.lowerTick /\ last.lowerTick <= MaxTick
                /\ MinTick <= last.upperTick /\ last.upperTick <= MaxTick
                /\ Divisible(last.lowerTick, last.tickSpacing)
                /\ Divisible(last.upperTick, last.tickSpacing))

\* The widest range, from MinTick to MaxTick, was accepted.
C5_Witness ==
    /\ last.op = "validateTickRangeIsValid"
    /\ last.lowerTick = MinTick /\ last.upperTick = MaxTick
    /\ last.err = NoError

\* C6, as stated: an InvalidTickError{Tick: t, IsLower: b} names a tick
\* outside [MinTick, MaxTick], the lower tick when b and the upper tick
\* otherwise; MinTick and MaxTick themselves are never reported.
C6_InvalidTickIsOutOfRange ==
    (last.op = "validateTickRangeIsValid"
        /\ last.err.kind = "InvalidTickError")
        => /\ last.err.Tick < MinTick \/ last.err.Tick > MaxTick
           /\ last.err.Tick =
                 IF last.err.IsLower THEN last.lowerTick ELSE last.upperTick

\* C7: for a registered pool getTickInfo on a tick that was never written
\* returns LiquidityGross = 0 and LiquidityNet = 0 and no error; it returns
\* PoolNotFoundError if and only if the pool is not registered; either way
\* it writes nothing.
C7_GetTickInfoDefaultsAndReadsOnly ==
    [][last'.op = "getTickInfo"
        => /\ UNCHANGED ledger
           /\ (last'.err = PoolNotFoundError(last'.poolId))
              <=> (last'.poolId \notin DOMAIN pools)
           /\ last'.poolId \in DOMAIN pools => last'.err = NoError
           /\ (last'.poolId \in DOMAIN pools
                 /\ KeyTick(last'.poolId, last'.tickIndex) \notin DOMAIN ticks)
              => /\ last'.tickInfo.LiquidityGross = 0
                 /\ last'.tickInfo.LiquidityNet = 0]_vars

\* getTickInfo read a tick that was never written, in a pool that has
\* another tick written, and returned the zero record.
C7_Witness ==
    /\ last.op = "getTickInfo" /\ last.err = NoError
    /\ last.poolId \in DOMAIN pools
    /\ KeyTick(last.poolId, last.tickIndex) \notin DOMAIN ticks
    /\ ticks # <<>>
    /\ last.tickInfo = ZeroTickInfo

\* C8: initOrUpdateTick called with the id of no registered pool returns
\* PoolNotFoundError and leaves every tick and every pool as it was.
C8_NoPoolNoChange ==
    [][(last'.op = "initOrUpdateTick" /\ last'.poolId \notin DOMAIN pools)
        => /\ last'.err = PoolNotFoundError(last'.poolId)
           /\ UNCHANGED ledger]_vars

\* initOrUpdateTick was refused for a pool id that is not registered, while
\* the registered pool has a tick written.
C8_Witness ==
    /\ last.op = "initOrUpdateTick"
    /\ last.poolId \notin DOMAIN pools
    /\ last.err = PoolNotFoundError(last.poolId)
    /\ ticks # <<>>

\* C9, as stated: for a registered pool initOrUpdateTick succeeds and
\* persists the tick, whatever the tick index, the delta, the boundary flag
\* and the list of committed incentive ids.
C9_AlwaysSucceedsOnRegisteredPool ==
    (last.op = "initOrUpdateTick" /\ last.poolId \in DOMAIN pools)
        => /\ last.err = NoError
           /\ KeyTick(last.poolId, last.tickIndex) \in DOMAIN ticks

\* The tick range of the recorded call c passes the range validation of a
\* pool with this tick spacing.
ValidRange(c, tickSpacing) ==
    /\ c.lowerTick < c.upperTick
    /\ MinTick <= c.lowerTick /\ c.upperTick <= MaxTick
    /\ Divisible(c.lowerTick, tickSpacing)
    /\ Divisible(c.upperTick, tickSpacing)

\* The exact key of the position the recorded call c is about.
KeyOfCall(c) ==
    <<c.poolId, c.owner, c.lowerTick, c.upperTick, Len(c.incentiveIDs) > 0>>

\* C11, as stated: withdrawPosition fails with PositionNotFoundError
\* whenever no position exists at the exact key of the call.
C11_AsStated ==
    (last.op = "withdrawPosition" /\ last.held = 0)
        => last.err.kind = "PositionNotFoundError"

\* C11, amended: on a registered pool and with a valid tick range,
\* withdrawPosition fails with PositionNotFoundError whenever no position
\* exists at the exact key (pool, owner, lowerTick, upperTick, incentivized
\* flag), also when the owner holds a position of the same range with the
\* other flag, and it changes no state.
C11_NoPositionAtKeyFails ==
    [][(/\ last'.op = "withdrawPosition"
        /\ last'.poolId \in DOMAIN pools
        /\ ValidRange(last', pools[last'.poolId].TickSpacing)
        /\ KeyOfCall(last') \notin DOMAIN positions)
        => /\ last'.err = PositionNotFoundError(last'.poolId, last'.lowerTick,
                                                last'.upperTick)
           /\ UNCHANGED ledger]_vars

\* A withdrawal with an empty incentive id list was refused with
\* PositionNotFoundError while the owner holds an incentivized position of
\* the same range.
C11_Witness ==
    /\ last.op = "withdrawPosition"
    /\ last.err.kind = "PositionNotFoundError"
    /\ last.incentiveIDs = <<>>
    /\ <<last.poolId, last.owner, last.lowerTick, last.upperTick, TRUE>>
          \in DOMAIN positions

\* The step is a withdrawal of the full liquidity of the position that the
\* call before it created, with the same range and incentive ids.
FullWithdrawalAfterCreate ==
    /\ last.op = "createPosition" /\ last.err = NoError /\ last.held = 0
    /\ last'.op = "withdrawPosition"
    /\ last'.poolId = last.poolId /\ last'.owner = last.owner
    /\ last'.lowerTick = last.lowerTick /\ last'.upperTick = last.upperTick
    /\ last'.incentiveIDs = last.incentiveIDs
    /\ last'.requested = last.liquidity

\* The withdrawal succeeded, returned the amounts the creation took and left
\* no position record at the key.
ReturnsDepositAndRemovesRecord ==
    /\ last'.err = NoError
    /\ last'.amount0 = last.amount0 /\ last'.amount1 = last.amount1
    /\ KeyOfCall(last') \notin DOMAIN positions'

\* Some position of the pool that is left has tickIndex as a boundary.
ReferencedAfter(poolId, tickIndex) ==
    \E k \in DOMAIN positions' :
        k[1] = poolId /\ (k[3] = tickIndex \/ k[4] = tickIndex)

FirstPositionWithZeroAmount ==
    /\ last'.op = "createPosition"
    /\ last'.poolId \in DOMAIN pools
    /\ pools[last'.poolId].CurrentTick = 0
    /\ pools[last'.poolId].CurrentSqrtPrice = 0
    /\ (last'.desired[1] = 0 \/ last'.desired[2] = 0)

\* C13, as stated: createPosition on a pool that has no position yet with a
\* desired amount of zero always fails with InitialLiquidityZeroError
\* carrying both desired amounts, and creates no position.
C13_AsStated ==
    [][FirstPositionWithZeroAmount
        => /\ last'.err = InitialLiquidityZeroError(last'.desired[1],
                                                    last'.desired[2])
           /\ UNCHANGED positions]_vars

\* C13, amended: createPosition with a valid tick range on a pool that has
\* no position yet, with a desired amount of zero, fails with
\* InitialLiquidityZeroError carrying both desired amounts, and creates no
\* position; with an invalid range the range error comes first.
C13_FirstPositionNeedsBothAmounts ==
    [][(/\ FirstPositionWithZeroAmount
        /\ ValidRange(last', pools[last'.poolId].TickSpacing))
        => /\ last'.err = InitialLiquidityZeroError(last'.desired[1],
                                                    last'.desired[2])
           /\ UNCHANGED ledger]_vars

\* A first position with no token 0 was refused.
C13_Witness ==
    /\ last.op = "createPosition"
    /\ last.desired = <<0, 1>>
    /\ last.err = InitialLiquidityZeroError(0, 1)
    /\ positions = <<>>

\* The key of the tick the recorded call c is about.
TickOfCall(c) == KeyTick(c.poolId, c.tickIndex)

\* What the store holds for a key: the zero record for a key never set.
StoredTick(tk, key) ==
    IF key \in DOMAIN tk THEN tk[key] ELSE ZeroTickInfo

\* The liquidity figures of a tick: gross and net of the tick and of every
\* incentive record.
LiquidityOf(tickInfo) ==
    <<tickInfo.LiquidityGross, tickInfo.LiquidityNet,
      [i \in DOMAIN tickInfo.TickIncentivizedLiquidityRecords |->
          <<tickInfo.TickIncentivizedLiquidityRecords[i]
                .IncentivizedLiquidityGross,
            tickInfo.TickIncentivizedLiquidityRecords[i]
                .IncentivizedLiquidityNet>>]>>

\* C14, as stated: crossTick on a registered pool returns exactly the
\* LiquidityNet the tick held before the call, and leaves the tick's
\* LiquidityGross, LiquidityNet and the gross and net of every incentive
\* record as they were.
C14_ReturnsNetAndKeepsLiquidity ==
    [][(last'.op = "crossTick" /\ last'.poolId \in DOMAIN pools)
        => /\ last'.err = NoError
           /\ last'.liquidityDelta =
                 StoredTick(ticks, TickOfCall(last')).LiquidityNet
           /\ LiquidityOf(StoredTick(ticks', TickOfCall(last'))) =
                 LiquidityOf(StoredTick(ticks, TickOfCall(last')))]_vars

\* C15, as stated: after crossTick succeeds, every incentive record of the
\* tick with IncentivizedLiquidityGross > 0 holds, as its
\* SecondsPerIncentivizedLiquidityOutside, the seconds from the creation of
\* the pool to the block time divided by that gross.
C15_OutsideIsSecondsPerGross ==
    (last.op = "crossTick" /\ last.err = NoError)
        => LET records == ticks[TickOfCall(last)]
                              .TickIncentivizedLiquidityRecords
               seconds == blockTime - pools[last.poolId].TimeOfCreation
           IN  \A i \in DOMAIN records :
                   records[i].IncentivizedLiquidityGross > 0
                      => records[i].SecondsPerIncentivizedLiquidityOutside =
                            QuoDec(seconds,
                                   records[i].IncentivizedLiquidityGross)

\* C16, as stated: a crossTick that succeeds leaves every incentive record
\* of the stored pool with its SecondsPerIncentivizedLiquidityGlobal raised
\* by the seconds-per-liquidity value computed in that call for the tick's
\* record of the same index.
C16_GlobalGrowsByFreshOutside ==
    [][(last'.op = "crossTick" /\ last'.err = NoError)
        => LET before == pools[last'.poolId].PoolIncentivizedLiquidityRecords
               after == pools'[last'.poolId].PoolIncentivizedLiquidityRecords
               records == ticks'[TickOfCall(last')]
                              .TickIncentivizedLiquidityRecords
               seconds == blockTime - pools[last'.poolId].TimeOfCreation
           IN  \A i \in DOMAIN before :
                   after[i].SecondsPerIncentivizedLiquidityGlobal =
                      before[i].SecondsPerIncentivizedLiquidityGlobal
                      + QuoDec(seconds,
                               records[i].IncentivizedLiquidityGross)]_vars

\* C17: over any sequence of initOrUpdateTick and crossTick calls, the block
\* time never going back, the SecondsPerIncentivizedLiquidityGlobal of each
\* pool incentive record never decreases, and it changes only in a
\* crossTick step.
C17_GlobalNeverDecreases ==
    [][\A poolId \in DOMAIN pools :
          \A i \in DOMAIN pools[poolId].PoolIncentivizedLiquidityRecords :
              LET before == pools[poolId].PoolIncentivizedLiquidityRecords[i]
                                .SecondsPerIncentivizedLiquidityGlobal
                  after == pools'[poolId].PoolIncentivizedLiquidityRecords[i]
                               .SecondsPerIncentivizedLiquidityGlobal
              IN  /\ after >= before
                  /\ after # before => last'.op = "crossTick"]_vars

\* A tick with liquidity committed to both incentives of the pool was
\* crossed a second after the creation of the pool.
C17_Witness ==
    /\ last.op = "crossTick" /\ last.err = NoError
    /\ blockTime > 0
    /\ Len(pools[last.poolId].PoolIncentivizedLiquidityRecords) = 2
    /\ \A i \in 1..2 :
          ticks[TickOfCall(last)].TickIncentivizedLiquidityRecords[i]
              .IncentivizedLiquidityGross > 0

\* C18: when a tick is crossed again, boundary updates of that tick in
\* between or not and the block time never going back, the
\* SecondsPerIncentivizedLiquidityOutside of each of its incentive records
\* after the second cross is at least what it was after the first.
C18_OutsideNeverDecreasesAcrossCrosses ==
    [][(/\ last'.op = "crossTick" /\ last'.err = NoError
        /\ TickOfCall(last') \in DOMAIN crossed)
        => LET first == crossed[TickOfCall(last')]
               second == outsideOf(ticks'[TickOfCall(last')])
           IN  \A i \in DOMAIN first \cap DOMAIN second :
                   second[i] >= first[i]]_vars

\* A tick was crossed for the second time, later than the creation of the
\* pool, with liquidity committed to an incentive.
C18_Witness ==
    /\ last.op = "crossTick" /\ last.err = NoError /\ last.second
    /\ blockTime > 0
    /\ \E i \in DOMAIN ticks[TickOfCall(last)]
                        .TickIncentivizedLiquidityRecords :
          ticks[TickOfCall(last)].TickIncentivizedLiquidityRecords[i]
              .IncentivizedLiquidityGross > 0

\* C19, as stated: crossTick on a tick that has an incentive record with an
\* IncentivizedLiquidityGross of zero returns an error or takes the value
\* of that record as zero or unchanged; it never divides by zero.
C19_ZeroGrossIsHandled ==
    [][(/\ last'.op = "crossTick"
        /\ TickOfCall(last') \in DOMAIN ticks
        /\ \E i \in DOMAIN ticks[TickOfCall(last')]
                            .TickIncentivizedLiquidityRecords :
              ticks[TickOfCall(last')].TickIncentivizedLiquidityRecords[i]
                  .IncentivizedLiquidityGross = 0)
        => last'.err.kind # "panic"]_vars

\* Where a goroutine is between the Lock and the Unlock of RecordValue.
UpdatingPcs == {"check", "read", "write", "unlock"}

\* C20: concurrent RecordValue calls lose no update: once no RecordValue
\* call is under way the stored value of every (ip, name) is the sum of the
\* values recorded for it, and a GetValues that holds the read lock never
\* runs while a RecordValue is between its Lock and its Unlock, so the map
\* it returns is the stored one.
C20_NoLostUpdate ==
    /\ (\A g \in Goroutines : pc[g] \notin UpdatingPcs \cup {"lock"})
          => \A k \in Ips \X Names : valueOf(values, k[1], k[2]) = recorded[k]
    /\ \A g \in Goroutines :
          pc[g] \in {"iterate", "runlock"}
             => \A h \in Goroutines : pc[h] \notin UpdatingPcs
    /\ \A g \in Goroutines :
          pc[g] = "runlock" => frame[g].ret = formattedValues(values)

\* Two goroutines record a value for the same ip and name at once: one has
\* written its sum and still holds the lock, the other waits for the lock.
C20_Witness ==
    \E g \in Goroutines, h \in Goroutines :
        /\ g # h
        /\ pc[g] = "unlock" /\ pc[h] = "lock"
        /\ frame[g].ip = frame[h].ip /\ frame[g].name = frame[h].name
        /\ valueOf(values, frame[g].ip, frame[g].name) =
              recorded[<<frame[g].ip, frame[g].name>>] - frame[h].value

\* The tick the recorded call is about, as stored before and after the step.
TickBefore == StoredTick(ticks, TickOfCall(last'))
TickAfter == StoredTick(ticks', TickOfCall(last'))

\* The step is an initOrUpdateTick call on a registered pool.
UpdatesTickOfPool ==
    last'.op = "initOrUpdateTick" /\ last'.poolId \in DOMAIN pools

\* C21, as stated: for a registered pool initOrUpdateTick(pool, tick, delta,
\* upper, ids) sets the tick's LiquidityGross to its previous value plus the
\* signed delta, and its LiquidityNet to the previous value minus delta when
\* upper and plus delta otherwise.
C21_GrossAndNetFollowDelta ==
    [][UpdatesTickOfPool
        => /\ TickAfter.LiquidityGross =
                 TickBefore.LiquidityGross + last'.liquidityIn
           /\ TickAfter.LiquidityNet =
                 IF last'.upper
                 THEN TickBefore.LiquidityNet - last'.liquidityIn
                 ELSE TickBefore.LiquidityNet + last'.liquidityIn]_vars

\* C22, as stated: initOrUpdateTick sets the tick's SecondsInactive to the
\* block time minus the pool's creation time exactly when the tick's
\* LiquidityGross and LiquidityNet were both zero before the call, and
\* leaves it unchanged otherwise.
C22_StampedExactlyWhenInactive ==
    [][UpdatesTickOfPool
        => TickAfter.SecondsInactive =
              IF TickBefore.LiquidityGross = 0 /\ TickBefore.LiquidityNet = 0
              THEN blockTime - pools[last'.poolId].TimeOfCreation
              ELSE TickBefore.SecondsInactive]_vars

\* A record as the recorded call leaves it: as it was, or with the delta of
\* the call committed to it.
KeptOrCommitted(record) ==
    {record, commitToRecord(record, last'.liquidityIn, last'.upper)}

\* C23, as stated: when initOrUpdateTick is applied to a tick that has no
\* incentive records, the persisted tick afterwards has exactly one record
\* per pool incentive record, with the same ids in the same order, each the
\* zero record but for the update of the committed ids.
C23_FreshTickGetsPoolRecords ==
    [][(UpdatesTickOfPool
            /\ TickBefore.TickIncentivizedLiquidityRecords = <<>>)
        => LET poolRecords ==
                   pools[last'.poolId].PoolIncentivizedLiquidityRecords
               records == TickAfter.TickIncentivizedLiquidityRecords
           IN  /\ Len(records) = Len(poolRecords)
               /\ \A i \in DOMAIN records :
                     records[i] \in KeptOrCommitted(
                                        ZeroRecord(poolRecords[i].ID))]_vars

\* C24, as stated: when initOrUpdateTick is applied to a tick that has
\* incentive records and the pool's list has grown since, the persisted tick
\* afterwards has one record for every pool incentive id: the records it had
\* keep their values (but for the update of the committed ids) and every new
\* id has a zero record.
C24_GrownPoolExtendsTickRecords ==
    [][(UpdatesTickOfPool
            /\ TickBefore.TickIncentivizedLiquidityRecords # <<>>
            /\ Len(pools[last'.poolId].PoolIncentivizedLiquidityRecords)
                  > Len(TickBefore.TickIncentivizedLiquidityRecords))
        => LET poolRecords ==
                   pools[last'.poolId].PoolIncentivizedLiquidityRecords
               had == TickBefore.TickIncentivizedLiquidityRecords
               records == TickAfter.TickIncentivizedLiquidityRecords
           IN  /\ Len(records) = Len(poolRecords)
               /\ \A i \in DOMAIN records :
                     records[i] \in KeptOrCommitted(
                         IF i <= Len(had) THEN had[i]
                         ELSE ZeroRecord(poolRecords[i].ID))]_vars

\* The incentive ids of the records of a tick, in the order of the records.
idsOf(tickInfo) ==
    [i \in DOMAIN tickInfo.TickIncentivizedLiquidityRecords |->
        tickInfo.TickIncentivizedLiquidityRecords[i].ID]

Committed(incentiveIDs) == {incentiveIDs[i] : i \in DOMAIN incentiveIDs}

\* C26, as stated, for the calls that return: every record of the tick
\* whose id is among incentiveIDsCommittedTo, wherever it sits in the tick's
\* list, gets its IncentivizedLiquidityGross raised by delta and its
\* IncentivizedLiquidityNet lowered by delta if upper and raised by delta
\* otherwise; the records whose id is not committed to are unchanged.
C26_CommittedRecordsUpdatedById ==
    [][(UpdatesTickOfPool /\ last'.err = NoError)
        => LET had == TickBefore.TickIncentivizedLiquidityRecords
               records == TickAfter.TickIncentivizedLiquidityRecords
           IN  \A i \in DOMAIN records :
                   LET was == IF i \in DOMAIN had THEN had[i]
                              ELSE ZeroRecord(records[i].ID)
                   IN  records[i] =
                          IF records[i].ID \in Committed(last'.incentiveIDs)
                          THEN commitToRecord(was, last'.liquidityIn,
                                              last'.upper)
                          ELSE was]_vars

\* C27, as stated: in every state reached by createPosition and
\* withdrawPosition calls, each withdrawal passing a list of incentive ids
\* of its own and taking no more than the position holds, the
\* IncentivizedLiquidityGross of every incentive record of every tick is at
\* least zero.
C27_IncentivizedGrossNotNegative ==
    \A k \in DOMAIN ticks :
        \A i \in DOMAIN ticks[k].TickIncentivizedLiquidityRecords :
            ticks[k].TickIncentivizedLiquidityRecords[i]
                .IncentivizedLiquidityGross >= 0

\* C28: an initOrUpdateTick(pool, tick, ...) that returns no error changes
\* only the stored record of the key of that pool and tick: every other
\* tick of the pool and every tick of every other pool is stored as it was,
\* none is added or removed, and the pool records are unchanged.
C28_OnlyTheTickOfTheCallChanges ==
    [][(last'.op = "initOrUpdateTick" /\ last'.err = NoError)
        => /\ pools' = pools
           /\ DOMAIN ticks' = DOMAIN ticks \cup {TickOfCall(last')}
           /\ \A k \in DOMAIN ticks \ {TickOfCall(last')} :
                 ticks'[k] = ticks[k]]_vars

\* initOrUpdateTick changed a tick of the second pool while the first pool
\* has the tick of the same index and another tick stored, with liquidity.
C28_Witness ==
    /\ last.op = "initOrUpdateTick" /\ last.err = NoError
    /\ last.poolId = SecondPoolId
    /\ ticks[TickOfCall(last)].LiquidityGross > 0
    /\ \A t \in FrameTicks :
          /\ KeyTick(ExistingPoolId, t) \in DOMAIN ticks
          /\ ticks[KeyTick(ExistingPoolId, t)].LiquidityGross > 0

\* The sum of the liquidity of the positions stored under keys.
RECURSIVE sumLiquidity(_, _)
sumLiquidity(pos, keys) ==
    IF keys = {} THEN 0
    ELSE LET k == CHOOSE x \in keys : TRUE
         IN  pos[k] + sumLiquidity(pos, keys \ {k})

\* The keys of the positions of a pool whose lower tick is tickIndex, and of
\* those whose upper tick it is.
positionsFrom(poolId, tickIndex) ==
    {k \in DOMAIN positions : k[1] = poolId /\ k[3] = tickIndex}
positionsUpTo(poolId, tickIndex) ==
    {k \in DOMAIN positions : k[1] = poolId /\ k[4] = tickIndex}

\* The keys of the ticks that are stored or are a boundary of a position.
tickKeysInUse ==
    DOMAIN ticks
        \cup {KeyTick(k[1], k[3]) : k \in DOMAIN positions}
        \cup {KeyTick(k[1], k[4]) : k \in DOMAIN positions}

\* C29: in every state reached by createPosition and withdrawPosition calls
\* the LiquidityGross of each tick is the sum of the liquidity of the
\* positions that have the tick as their lower or upper boundary, and its
\* LiquidityNet is the sum over those that have it as lower boundary minus
\* the sum over those that have it as upper boundary.
C29_TicksSumPositions ==
    \A key \in tickKeysInUse :
        LET lower == sumLiquidity(positions, positionsFrom(key[1], key[2]))
            upper == sumLiquidity(positions, positionsUpTo(key[1], key[2]))
        IN  /\ StoredTick(ticks, key).LiquidityGross = lower + upper
            /\ StoredTick(ticks, key).LiquidityNet = lower - upper

\* A position was created next to another: the upper tick of one is the
\* lower tick of the other, which holds the liquidity of both as its gross
\* and a net of zero.
C29_Witness ==
    /\ last.op = "createPosition" /\ last.err = NoError
    /\ \E key \in DOMAIN ticks :
          /\ positionsFrom(key[1], key[2]) # {}
          /\ positionsUpTo(key[1], key[2]) # {}
          /\ ticks[key].LiquidityGross > 1
          /\ ticks[key].LiquidityNet = 0

\* C30, as stated, for the ticks it names: crossTick on a tick of a
\* registered pool that has fewer incentive records than the pool, a tick
\* that was never initialised among them, returns no error and the tick's
\* LiquidityNet; it reads no tick incentive record that does not exist.
C30_CrossesTickWithFewerRecords ==
    [][(/\ last'.op = "crossTick"
        /\ last'.poolId \in DOMAIN pools
        /\ Len(StoredTick(ticks, TickOfCall(last'))
                   .TickIncentivizedLiquidityRecords)
              < Len(pools[last'.poolId].PoolIncentivizedLiquidityRecords))
        => /\ last'.err = NoError
           /\ last'.liquidityDelta =
                 StoredTick(ticks, TickOfCall(last')).LiquidityNet]_vars

\* The tick has the liquidity figures it had: the same LiquidityGross and
\* LiquidityNet, every incentive record it had with the same id, gross and
\* net, and nothing but zeros in the records it did not have.
sameLiquidity(tickInfo, had) ==
    LET records == tickInfo.TickIncentivizedLiquidityRecords
        hadRecords == had.TickIncentivizedLiquidityRecords
    IN  /\ tickInfo.LiquidityGross = had.LiquidityGross
        /\ tickInfo.LiquidityNet = had.LiquidityNet
        /\ Len(records) >= Len(hadRecords)
        /\ \A i \in DOMAIN records :
              IF i <= Len(hadRecords)
              THEN /\ records[i].ID = hadRecords[i].ID
                   /\ records[i].IncentivizedLiquidityGross =
                         hadRecords[i].IncentivizedLiquidityGross
                   /\ records[i].IncentivizedLiquidityNet =
                         hadRecords[i].IncentivizedLiquidityNet
              ELSE /\ records[i].IncentivizedLiquidityGross = 0
                   /\ records[i].IncentivizedLiquidityNet = 0

\* C31: initOrUpdateTick applied to a tick with delta d and then again with
\* delta -d, the same boundary flag and the same committed incentive ids,
\* the pool's incentive list unchanged in between, leaves the tick with the
\* LiquidityGross, the LiquidityNet and the gross and net of every incentive
\* record that it had before the first call.
C31_OppositeDeltaRestoresTick ==
    [][(UpdatesTickOfPool /\ last'.undoes)
        => sameLiquidity(TickAfter, last.before)]_vars

\* A call that returned was taken back by a call that returned: the delta was
\* not zero, both calls committed to an incentive record of the tick, and the
\* tick is back at liquidity and a record that are not zero.
C31_Witness ==
    /\ last.op = "initOrUpdateTick" /\ last.err = NoError /\ last.undoes
    /\ last.liquidityIn # 0
    /\ last.incentiveIDs # <<>>
    /\ last.before.LiquidityGross # ticks[TickOfCall(last)].LiquidityGross
    /\ ticks[TickOfCall(last)].LiquidityGross # 0
    /\ \E i \in DOMAIN last.before.TickIncentivizedLiquidityRecords :
          LET was == last.before.TickIncentivizedLiquidityRecords[i]
              is == ticks[TickOfCall(last)].TickIncentivizedLiquidityRecords[i]
          IN  /\ is.IncentivizedLiquidityGross # was.IncentivizedLiquidityGross
              /\ is.IncentivizedLiquidityGross # 0

\* The goroutines that hold a pointer returned by Instance().
Holders == {g \in Goroutines : caller[g].ret # 0}

\* GetValues on this object returns every value recorded so far.
ReadsEveryRecorded(m) ==
    \A ip \in Ips, name \in Names :
        recorded[<<ip, name>>] # 0
            => LET ret == formattedValues(objects[m])
               IN  /\ ip \in DOMAIN ret
                   /\ name \in DOMAIN ret[ip]
                   /\ ret[ip][name] = formatValue(recorded[<<ip, name>>])

\* C32, as stated: every call to Instance() returns the same Metrics object,
\* also when the first calls are made concurrently: no two goroutines hold
\* different instances, and GetValues through the instance any goroutine
\* holds returns every value recorded through any goroutine's instance.
C32_OneInstanceForAllCallers ==
    /\ \A g, h \in Holders : caller[g].ret = caller[h].ret
    /\ \A g \in Holders : ReadsEveryRecorded(caller[g].ret)

====
